---- MODULE Spec2Model ----
(***************************************************************************)
(* Model of the job pipeline (backend/pipeline.py) and of the substep      *)
(* progress tracker (backend/evaluate/progress.py).                        *)
(*                                                                         *)
(* Spec        : concurrent PipelineRunner.run() calls over the shared     *)
(*               semaphore, the active-job set, the per-job lock map and   *)
(*               the job snapshot files.                                   *)
(* TrackerSpec : arbitrary call sequences on one ProgressTracker.          *)
(* LockSpec    : the run() calls with every snapshot write in two halves.  *)
(* ExtractSpec : one call of extract_json_from_readme                      *)
(*               (backend/evaluate/extractor.py) on its tracker.           *)
(* RelaySpec   : the SSE generator of POST /extract-json-stream            *)
(*               (backend/routers/extract.py) draining the progress queue  *)
(*               while the extraction runs on an executor thread.          *)
(***************************************************************************)
EXTENDS Integers, Sequences, FiniteSets, TLC

\* ------------------------------------------------------------------ bounds
NumCalls == 2          \* run() calls (worker threads) in the model
NumJobs == 2           \* job ids new_job hands out in the model
MaxCalls == 3          \* tracker calls in one TrackerSpec behaviour

Calls == 1..NumCalls

\* Job ids: 1..NumJobs are the ids new_job creates, in this order (the ids are
\* fresh uuids, so their names carry no meaning); 0 is an id that new_job
\* never created, which a caller may still pass to run().
UnknownJob == 0
Jobs == 0..NumJobs

\* --------------------------------------------------------------- variables
VARIABLES
    \* --- pipeline.py module state
    MAX_CONCURRENT_PIPELINES, \* the capacity read from the environment at import
    sem,           \* _pipeline_semaphore: free permits
    active,        \* _active_jobs
    file_locks,    \* _file_locks: the job ids that have a lock entry
    file,          \* jobs_dir: job id -> snapshot file
    \* --- one run() call per worker thread
    pc,            \* position of the call in run() / _run_inner()
    job_id,        \* argument job_id
    params,        \* argument params: which source the caller supplied
    job,           \* the local dict `job` that _run_inner loaded and mutates
    kstep,         \* index of the pipeline step being executed (1..7)
    exc,           \* an exception is propagating out of _run_inner
    \* --- one client of GET /jobs/{job_id}
    polled,        \* the last response of get_job_status
    held,          \* the file lock the call holds inside _write, if any
    \* --- one ProgressTracker
    substeps,      \* self._substeps as ordered <<stage, count>> pairs
    completed,     \* self._completed
    current_stage, \* self._current_stage
    history,       \* self.history
    has_callback,  \* self.callback is set
    received,      \* the updates the callback was invoked with
    \* --- one call of extract_json_from_readme
    epc,           \* position of the call
    estep,         \* position inside a branch that only walks through stages
    model,         \* argument model
    cb_faulty,     \* the progress callback is one that can raise
    owner,         \* argument owner
    repo,          \* argument repo
    readme_raw_link, \* argument readme_raw_link
    schema_obj,    \* the schema text parsed into an object
    chunks,        \* len(full_response): chunks received from the stream
    raw,           \* what the joined response is: blank, invalid JSON, an object
    result_obj,    \* the EvaluationResult being built / returned
    \* --- one progress_generator of POST /extract-json-stream
    rpc,           \* position of the generator
    taken,         \* updates taken from progress_queue so far
    frames         \* the frames yielded to the client

pvars == <<MAX_CONCURRENT_PIPELINES, sem, active, file_locks, file, pc, job_id, params, job, kstep,
          exc, polled, held>>
tvars == <<substeps, completed, current_stage, history, has_callback, received>>
evars == <<epc, estep, model, cb_faulty, owner, repo, readme_raw_link, schema_obj, chunks, raw,
          result_obj>>
rvars == <<rpc, taken, frames>>
vars == <<pvars, tvars, evars, rvars>>

\* ================================================================ pipeline

\* The default of MAX_CONCURRENT_PIPELINES.
DefaultCapacity == 3

\* The values the environment sets MAX_CONCURRENT_PIPELINES to in the model:
\* a fully serialised runner, and the default.
Capacities == {1, DefaultCapacity}

\* The names of the seven steps, in the order _run_inner starts them.
StepNames == <<"download_readme", "build_prompt", "call_model", "validate_schema",
               "save_results", "save_to_database", "cleanup_cache">>

NumSteps == Len(StepNames)

\* What the caller put in params: a source (a repo_url; a readme_text takes the
\* same path with a file write in place of the download), or neither.
ParamKinds == {"repo_url", "none"}

\* The job dict written by new_job (status queued, no steps, no error, no
\* artifacts).  Of the artifacts the model keeps mongo_id ("unset" while the
\* key is missing) and whether backup_file is set.
QueuedJob ==
    [status |-> "queued", current_step |-> "None", steps |-> <<>>,
     error |-> "None", finished_at |-> FALSE,
     mongo_id |-> "unset", backup_file |-> FALSE]

\* A snapshot file that does not exist (doc is meaningless then).  The other
\* states of a file are "ok", it holds the whole document doc, and "torn":
\* open(path, "w") has truncated it and json.dump has not finished, so it is
\* empty or holds the beginning of a document.
AbsentFile == [state |-> "absent", doc |-> QueuedJob]

\* The positions of a call between entering and leaving _run_inner.
InnerPcs == {"load", "start", "body", "success"}

\* The positions of a call between adding its id to _active_jobs and discarding it.
ActivePcs == InnerPcs \cup {"try_acquire", "wait", "release", "discard"}

\* The positions of a call that holds a permit of _pipeline_semaphore.
PermitPcs == InnerPcs \cup {"release"}

\* The positions of a call that has left run(): returned after the pipeline,
\* returned at the duplicate guard, or left by an exception.
ReturnedPcs == {"done", "ignored", "raised"}

InitPipeline ==
    /\ MAX_CONCURRENT_PIPELINES \in Capacities
    /\ sem = MAX_CONCURRENT_PIPELINES
    /\ active = {}
    /\ file_locks = {}
    /\ file = [j \in Jobs |-> AbsentFile]
    /\ pc = [t \in Calls |-> "idle"]
    /\ job_id = [t \in Calls |-> UnknownJob]
    /\ params = [t \in Calls |-> "none"]
    /\ job = [t \in Calls |-> QueuedJob]
    /\ kstep = [t \in Calls |-> 1]
    /\ exc = [t \in Calls |-> FALSE]
    /\ polled = "none"
    /\ held = [t \in Calls |-> "none"]

\* What a call holds of the per-job file locks: "none" outside _write;
\* inside it "current", the lock object that _file_locks maps the job id to,
\* or "stale", a lock object that _release_file_lock has popped since the
\* call fetched it (no later _get_file_lock returns that object again).
HeldKinds == {"none", "current", "stale"}

\* `with lock` in _write can be entered by call t: no other call holds the
\* lock object that _get_file_lock returns for the job id of t (the one in
\* the map; a lock created because the id has no entry is held by nobody).
LockAvailable(t) ==
    \A u \in Calls \ {t} : ~(held[u] = "current" /\ job_id[u] = job_id[t])

\* The end of `with lock` in _write.
LeaveWrite(t) == held' = [held EXCEPT ![t] = "none"]

\* _write: _get_file_lock creates the id's lock entry when missing, and under
\* that lock the file is overwritten with the whole dict d.
WriteSnapshot(j, d) ==
    /\ file_locks' = file_locks \cup {j}
    /\ file' = [file EXCEPT ![j] = [state |-> "ok", doc |-> d]]

\* new_job: a fresh id and a queued snapshot, written through _write.
new_job(j) ==
    /\ j # UnknownJob
    /\ file[j].state = "absent"
    /\ \A i \in 1..(j - 1) : file[i].state # "absent"
    /\ WriteSnapshot(j, QueuedJob)
    /\ UNCHANGED <<MAX_CONCURRENT_PIPELINES, sem, active, pc, job_id, params, job, kstep, exc, polled>>
    /\ UNCHANGED held
    /\ UNCHANGED <<tvars, evars, rvars>>

\* A worker thread is handed run(job_id, params): an id that new_job returned,
\* or an id no job was created with.  Calls and job ids are interchangeable,
\* so they are numbered in the order in which they are first used.
Invoke(t, j, p) ==
    /\ pc[t] = "idle"
    /\ \A u \in 1..(t - 1) : pc[u] # "idle"
    /\ \/ j = UnknownJob
       \/ /\ file[j].state # "absent"
          /\ \A i \in 1..(j - 1) : \E u \in Calls : pc[u] # "idle" /\ job_id[u] = i
    /\ pc' = [pc EXCEPT ![t] = "guard"]
    /\ job_id' = [job_id EXCEPT ![t] = j]
    /\ params' = [params EXCEPT ![t] = p]
    /\ UNCHANGED <<MAX_CONCURRENT_PIPELINES, sem, active, file_locks, file, job, kstep, exc, polled>>
    /\ UNCHANGED held
    /\ UNCHANGED <<tvars, evars, rvars>>

\* DuplicateGuard whose duplicate branch leaves through the finally clause of
\* run: it gives back a permit it never took.
DuplicateGuard_ReleasesPermit(t) ==
    /\ pc[t] = "guard"
    /\ IF job_id[t] \in active
         THEN /\ pc' = [pc EXCEPT ![t] = "ignored"]
              /\ sem' = sem + 1
              /\ UNCHANGED active
         ELSE /\ active' = active \cup {job_id[t]}
              /\ pc' = [pc EXCEPT ![t] = "try_acquire"]
              /\ UNCHANGED sem
    /\ UNCHANGED <<MAX_CONCURRENT_PIPELINES, file_locks, file, job_id, params, job, kstep, exc, polled>>
    /\ UNCHANGED held
    /\ UNCHANGED <<tvars, evars, rvars>>

\* DuplicateGuard without the membership test: every call adds its id and goes on.
DuplicateGuard_NoCheck(t) ==
    /\ pc[t] = "guard"
    /\ active' = active \cup {job_id[t]}
    /\ pc' = [pc EXCEPT ![t] = "try_acquire"]
    /\ UNCHANGED <<MAX_CONCURRENT_PIPELINES, sem, file_locks, file, job_id, params, job, kstep, exc, polled>>
    /\ UNCHANGED held
    /\ UNCHANGED <<tvars, evars, rvars>>

\* run, the duplicate guard under _active_jobs_lock: a call whose id is in the
\* set returns at once, any other call adds its id.
DuplicateGuard(t) ==
    /\ pc[t] = "guard"
    /\ IF job_id[t] \in active
         THEN /\ pc' = [pc EXCEPT ![t] = "ignored"]
              /\ UNCHANGED active
         ELSE /\ active' = active \cup {job_id[t]}
              /\ pc' = [pc EXCEPT ![t] = "try_acquire"]
    /\ UNCHANGED <<MAX_CONCURRENT_PIPELINES, sem, file_locks, file, job_id, params, job, kstep, exc, polled>>
    /\ UNCHANGED held
    /\ UNCHANGED <<tvars, evars, rvars>>

\* TryAcquire without the blocking fallback: a failed acquire goes on regardless.
TryAcquire_NoBlock(t) ==
    /\ pc[t] = "try_acquire"
    /\ sem' = IF sem > 0 THEN sem - 1 ELSE sem
    /\ pc' = [pc EXCEPT ![t] = "load"]
    /\ UNCHANGED <<MAX_CONCURRENT_PIPELINES, active, file_locks, file, job_id, params, job, kstep, exc, polled>>
    /\ UNCHANGED held
    /\ UNCHANGED <<tvars, evars, rvars>>

\* run, _pipeline_semaphore.acquire(timeout=0): a permit is taken when one is
\* free, otherwise the call goes on to the blocking acquire.
TryAcquire(t) ==
    /\ pc[t] = "try_acquire"
    /\ IF sem > 0
         THEN /\ sem' = sem - 1
              /\ pc' = [pc EXCEPT ![t] = "load"]
         ELSE /\ pc' = [pc EXCEPT ![t] = "wait"]
              /\ UNCHANGED sem
    /\ UNCHANGED <<MAX_CONCURRENT_PIPELINES, active, file_locks, file, job_id, params, job, kstep, exc, polled>>
    /\ UNCHANGED held
    /\ UNCHANGED <<tvars, evars, rvars>>

\* run, the blocking _pipeline_semaphore.acquire().
BlockingAcquire(t) ==
    /\ pc[t] = "wait"
    /\ sem > 0
    /\ sem' = sem - 1
    /\ pc' = [pc EXCEPT ![t] = "load"]
    /\ UNCHANGED <<MAX_CONCURRENT_PIPELINES, active, file_locks, file, job_id, params, job, kstep, exc, polled>>
    /\ UNCHANGED held
    /\ UNCHANGED <<tvars, evars, rvars>>

\* The ways the read of an existing job file can end: "ok", or "raise" when
\* open() raises OSError or json.load raises on a file that does not hold a
\* complete document.
LoadOutcomes == {"ok", "raise"}

\* _run_inner, the head: a missing file returns; otherwise the snapshot is
\* read, before the try block, so a failing read propagates to run(), whose
\* finally clause runs next.
LoadJob(t, o) ==
    /\ pc[t] = "load"
    /\ o \in LoadOutcomes
    /\ IF file[job_id[t]].state = "absent"
         THEN /\ o = "ok"
              /\ pc' = [pc EXCEPT ![t] = "release"]
              /\ UNCHANGED <<job, kstep, exc>>
         ELSE IF o = "raise" \/ file[job_id[t]].state = "torn"
         THEN /\ exc' = [exc EXCEPT ![t] = TRUE]
              /\ pc' = [pc EXCEPT ![t] = "release"]
              /\ UNCHANGED <<job, kstep>>
         ELSE /\ job' = [job EXCEPT ![t] = file[job_id[t]].doc]
              /\ kstep' = [kstep EXCEPT ![t] = 1]
              /\ pc' = [pc EXCEPT ![t] = "start"]
              /\ UNCHANGED exc
    /\ UNCHANGED <<MAX_CONCURRENT_PIPELINES, sem, active, file_locks, file, job_id, params, polled>>
    /\ UNCHANGED held
    /\ UNCHANGED <<tvars, evars, rvars>>

\* _start_step: the dict after appending a running step.
StartedJob(d, name) ==
    [d EXCEPT !.steps = Append(d.steps, [name |-> name, status |-> "running"]),
              !.current_step = name,
              !.status = "running"]

\* _finish_step: the dict after the last step is marked done or failed.
FinishedJob(d, ok, message) ==
    LET n == Len(d.steps)
        marked == [d EXCEPT !.steps[n].status = IF ok THEN "done" ELSE "failed"]
    IN  IF ok THEN marked
        ELSE [marked EXCEPT !.status = "failed", !.error = message]

\* _run_inner, the outer `except Exception` handler.
HandledJob(d, message) ==
    [d EXCEPT !.status = "failed", !.error = message, !.finished_at = TRUE]

\* SucceededJob that leaves finished_at unset.
SucceededJob_NoFinishedAt(d) ==
    [d EXCEPT !.status = "succeeded"]

\* _run_inner, the success tail.
SucceededJob(d) ==
    [d EXCEPT !.status = "succeeded", !.finished_at = TRUE]

\* _start_step(job, StepNames[kstep]): the step is appended and the snapshot written.
StartStep(t) ==
    /\ pc[t] = "start"
    /\ job' = [job EXCEPT ![t] = StartedJob(job[t], StepNames[kstep[t]])]
    /\ held[t] # "none" \/ LockAvailable(t)
    /\ WriteSnapshot(job_id[t], job'[t])
    /\ LeaveWrite(t)
    /\ pc' = [pc EXCEPT ![t] = "body"]
    /\ UNCHANGED <<MAX_CONCURRENT_PIPELINES, sem, active, job_id, params, kstep, exc, polled>>
    /\ UNCHANGED <<tvars, evars, rvars>>

\* The ways the body of step k can end for a call with params p:
\*   "ok"    the body ran through and _finish_step(ok=True) follows;
\*   "fail"  the step's own try/except calls _finish_step(ok=False) and returns;
\*   "raise" an exception reaches the outer handler of _run_inner.
\* Step 1 raises ValueError without a source, and with one the downloader (or
\* the file write) may raise; in step 3 the model call may raise; step 5
\* catches the failures of its file operations itself; steps 6 and 7 swallow
\* every failure of their collaborators.  The model injects no failure into
\* the dict and artifact bookkeeping of steps 2 and 4.
\* In step 6 the insert may return an id ("ok"), return None ("db_none") or
\* raise ("db_raise"); the body goes on to the file backup in each case.
BodyOutcomes(k, p) ==
    IF k = 1 THEN (IF p = "none" THEN {"raise"} ELSE {"ok", "raise"})
    ELSE IF k = 3 THEN {"ok", "raise"}
    ELSE IF k = 5 THEN {"ok", "fail"}
    ELSE IF k = 6 THEN {"ok", "db_none", "db_raise"}
    ELSE {"ok"}

\* DoneOutcomes in which a failing insert is not swallowed.
DoneOutcomes_DbFatal == {"ok"}

\* The outcomes after which _finish_step(ok=True) is called.
DoneOutcomes == {"ok", "db_none", "db_raise"}

\* Every outcome of a step body.
Outcomes == {"ok", "db_none", "db_raise", "fail", "raise"}

\* The artifacts the body of step k leaves in the dict: step 6 stores the
\* value insert_one returned (nothing when it raised), then writes the backup
\* file and stores its path.
WithArtifacts(d, k, o) ==
    IF k # 6 THEN d
    ELSE [d EXCEPT !.mongo_id = IF o = "ok" THEN "id"
                                 ELSE IF o = "db_none" THEN "None"
                                 ELSE d.mongo_id,
                   !.backup_file = TRUE]

\* The message str(e) of the failure of step k.
FailureMessage(k, p) ==
    IF k = 1 /\ p = "none" THEN "Either repo_url or readme_text must be provided"
    ELSE "error in " \o StepNames[k]

\* StepBody that goes on to the next step after a failure.
StepBody_ContinuesAfterFailure(t, o) ==
    /\ pc[t] = "body"
    /\ o \in BodyOutcomes(kstep[t], params[t])
    /\ job' = [job EXCEPT ![t] =
                  IF o \in DoneOutcomes
                    THEN FinishedJob(WithArtifacts(job[t], kstep[t], o), TRUE, "None")
                  ELSE IF o = "fail"
                    THEN FinishedJob(job[t], FALSE, FailureMessage(kstep[t], params[t]))
                  ELSE HandledJob(job[t], FailureMessage(kstep[t], params[t]))]
    /\ IF kstep[t] < NumSteps
         THEN /\ kstep' = [kstep EXCEPT ![t] = kstep[t] + 1]
              /\ pc' = [pc EXCEPT ![t] = "start"]
         ELSE /\ UNCHANGED kstep
              /\ pc' = [pc EXCEPT ![t] = "success"]
    /\ held[t] # "none" \/ LockAvailable(t)
    /\ WriteSnapshot(job_id[t], job'[t])
    /\ LeaveWrite(t)
    /\ UNCHANGED <<MAX_CONCURRENT_PIPELINES, sem, active, job_id, params, exc, polled>>
    /\ UNCHANGED <<tvars, evars, rvars>>

\* The body of the current step ends with outcome o and the snapshot is
\* written: by _finish_step, or by the handler of _run_inner.
StepBody(t, o) ==
    /\ pc[t] = "body"
    /\ o \in BodyOutcomes(kstep[t], params[t])
    /\ IF o \in DoneOutcomes
         THEN /\ job' = [job EXCEPT ![t] =
                            FinishedJob(WithArtifacts(job[t], kstep[t], o), TRUE, "None")]
              /\ IF kstep[t] < NumSteps
                   THEN /\ kstep' = [kstep EXCEPT ![t] = kstep[t] + 1]
                        /\ pc' = [pc EXCEPT ![t] = "start"]
                   ELSE /\ UNCHANGED kstep
                        /\ pc' = [pc EXCEPT ![t] = "success"]
         ELSE IF o = "fail"
         THEN /\ job' = [job EXCEPT ![t] =
                            FinishedJob(job[t], FALSE, FailureMessage(kstep[t], params[t]))]
              /\ UNCHANGED kstep
              /\ pc' = [pc EXCEPT ![t] = "release"]
         ELSE /\ job' = [job EXCEPT ![t] =
                            HandledJob(job[t], FailureMessage(kstep[t], params[t]))]
              /\ UNCHANGED kstep
              /\ pc' = [pc EXCEPT ![t] = "release"]
    /\ held[t] # "none" \/ LockAvailable(t)
    /\ WriteSnapshot(job_id[t], job'[t])
    /\ LeaveWrite(t)
    /\ UNCHANGED <<MAX_CONCURRENT_PIPELINES, sem, active, job_id, params, exc, polled>>
    /\ UNCHANGED <<tvars, evars, rvars>>

\* _run_inner, the success tail: status succeeded, finished_at, _write.
Succeed(t) ==
    /\ pc[t] = "success"
    /\ job' = [job EXCEPT ![t] = SucceededJob(job[t])]
    /\ held[t] # "none" \/ LockAvailable(t)
    /\ WriteSnapshot(job_id[t], job'[t])
    /\ LeaveWrite(t)
    /\ pc' = [pc EXCEPT ![t] = "release"]
    /\ UNCHANGED <<MAX_CONCURRENT_PIPELINES, sem, active, job_id, params, kstep, exc, polled>>
    /\ UNCHANGED <<tvars, evars, rvars>>

\* ReleasePermit that keeps the permit.
ReleasePermit_Leak(t) ==
    /\ pc[t] = "release"
    /\ pc' = [pc EXCEPT ![t] = "discard"]
    /\ UNCHANGED <<MAX_CONCURRENT_PIPELINES, sem, active, file_locks, file, job_id, params, job, kstep, exc, polled>>
    /\ UNCHANGED held
    /\ UNCHANGED <<tvars, evars, rvars>>

\* run, finally: _pipeline_semaphore.release().
ReleasePermit(t) ==
    /\ pc[t] = "release"
    /\ sem' = sem + 1
    /\ pc' = [pc EXCEPT ![t] = "discard"]
    /\ UNCHANGED <<MAX_CONCURRENT_PIPELINES, active, file_locks, file, job_id, params, job, kstep, exc, polled>>
    /\ UNCHANGED held
    /\ UNCHANGED <<tvars, evars, rvars>>

\* DiscardActive that leaves the id in the set.
DiscardActive_Skip(t) ==
    /\ pc[t] = "discard"
    /\ pc' = [pc EXCEPT ![t] = "unlock"]
    /\ UNCHANGED <<MAX_CONCURRENT_PIPELINES, sem, active, file_locks, file, job_id, params, job, kstep, exc, polled>>
    /\ UNCHANGED held
    /\ UNCHANGED <<tvars, evars, rvars>>

\* run, finally: _active_jobs.discard(job_id) under _active_jobs_lock.
DiscardActive(t) ==
    /\ pc[t] = "discard"
    /\ active' = active \ {job_id[t]}
    /\ pc' = [pc EXCEPT ![t] = "unlock"]
    /\ UNCHANGED <<MAX_CONCURRENT_PIPELINES, sem, file_locks, file, job_id, params, job, kstep, exc, polled>>
    /\ UNCHANGED held
    /\ UNCHANGED <<tvars, evars, rvars>>

\* run, finally: _release_file_lock(job_id) pops the lock entry; then run
\* returns, or the exception that left _run_inner leaves run() too.  The
\* locals (params, the loaded dict, the step position) are gone.
ReleaseFileLock(t) ==
    /\ pc[t] = "unlock"
    /\ file_locks' = file_locks \ {job_id[t]}
    /\ held' = [u \in Calls |->
                  IF held[u] = "current" /\ job_id[u] = job_id[t] THEN "stale"
                  ELSE held[u]]
    /\ pc' = [pc EXCEPT ![t] = IF exc[t] THEN "raised" ELSE "done"]
    /\ job' = [job EXCEPT ![t] = QueuedJob]
    /\ kstep' = [kstep EXCEPT ![t] = 1]
    /\ params' = [params EXCEPT ![t] = "none"]
    /\ exc' = [exc EXCEPT ![t] = FALSE]
    /\ UNCHANGED <<MAX_CONCURRENT_PIPELINES, sem, active, file, job_id, polled>>
    /\ UNCHANGED <<tvars, evars, rvars>>

\* get_active_jobs: a copy of _active_jobs.
get_active_jobs == active

\* BeginWrite that enters the critical section without taking the lock.
BeginWrite_NoLock(t) ==
    /\ pc[t] \in {"start", "body", "success"}
    /\ held[t] = "none"
    /\ file_locks' = file_locks \cup {job_id[t]}
    /\ held' = [held EXCEPT ![t] = "current"]
    /\ file' = [file EXCEPT ![job_id[t]].state = "torn"]
    /\ UNCHANGED <<MAX_CONCURRENT_PIPELINES, sem, active, pc, job_id, params, job, kstep, exc, polled>>
    /\ UNCHANGED <<tvars, evars, rvars>>

\* _write, its first half: the call is about to write (in _start_step, in
\* _finish_step or the handler at the end of a step body, or in the success
\* tail), it takes the file lock and open(path, "w") truncates the file.
\* The action that follows at this position ends the write.
BeginWrite(t) ==
    /\ pc[t] \in {"start", "body", "success"}
    /\ held[t] = "none"
    /\ LockAvailable(t)
    /\ file_locks' = file_locks \cup {job_id[t]}
    /\ held' = [held EXCEPT ![t] = "current"]
    /\ file' = [file EXCEPT ![job_id[t]].state = "torn"]
    /\ UNCHANGED <<MAX_CONCURRENT_PIPELINES, sem, active, pc, job_id, params, job, kstep, exc, polled>>
    /\ UNCHANGED <<tvars, evars, rvars>>

\* The responses of get_job_status.
StatusCodes == {"200", "404", "500"}

\* get_job_status(j): 404 when the file is missing; otherwise the file is
\* read without any lock, the document returned (200), and a failure to parse
\* it answered with 500.
get_job_status(j) ==
    /\ polled' = IF file[j].state = "absent" THEN "404"
                 ELSE IF file[j].state = "ok" THEN "200"
                 ELSE "500"
    /\ UNCHANGED <<MAX_CONCURRENT_PIPELINES, sem, active, file_locks, file, pc, job_id, params, job, kstep, exc>>
    /\ UNCHANGED held
    /\ UNCHANGED <<tvars, evars, rvars>>

\* ================================================================= tracker

\* ProgressStage, in declaration order.
Stages == <<"downloading", "building_prompt", "calling_model", "parsing_json",
            "validating", "rendering", "completed">>

\* DEFAULT_SUBSTEPS, in key order.
DEFAULT_SUBSTEPS ==
    << [stage |-> "downloading", n |-> 3],
       [stage |-> "building_prompt", n |-> 2],
       [stage |-> "calling_model", n |-> 2],
       [stage |-> "parsing_json", n |-> 2],
       [stage |-> "validating", n |-> 2],
       [stage |-> "rendering", n |-> 2],
       [stage |-> "completed", n |-> 1] >>

\* A substeps argument that overrides the default (the one of the test suite).
CUSTOM_SUBSTEPS ==
    << [stage |-> "building_prompt", n |-> 2],
       [stage |-> "completed", n |-> 1] >>

\* The substeps tables a tracker is constructed with in the model.
SubstepTables == {DEFAULT_SUBSTEPS, CUSTOM_SUBSTEPS}

\* sum(n for the first k entries of tbl)
RECURSIVE SumFirst(_, _)
SumFirst(tbl, k) == IF k = 0 THEN 0 ELSE tbl[k].n + SumFirst(tbl, k - 1)

\* self._total
Total == SumFirst(substeps, Len(substeps))

\* the keys of self._substeps
Declared == {substeps[i].stage : i \in 1..Len(substeps)}

\* self._ordered_stages.index(stage) + 1
StageIndex(stage) == CHOOSE i \in 1..Len(substeps) : substeps[i].stage = stage

\* int(c / self._total * 100).  For the totals of SubstepTables the float
\* expression equals the integer quotient for every c in 0..total+1.
Pct(c) == (c * 100) \div Total

\* BasePercentageOf that rounds to the nearest integer instead of truncating.
BasePercentageOf_Rounded(c) ==
    IF Total <= 0 THEN 100 ELSE (c * 200 + Total) \div (2 * Total)

\* _base_percentage, for a counter value c.
BasePercentageOf(c) == IF Total <= 0 THEN 100 ELSE Pct(c)

\* _base_percentage
BasePercentage == BasePercentageOf(completed)

\* StageEndBoundary that sums range(idx) instead of range(idx + 1).
StageEndBoundary_ExcludesStage(stage) ==
    IF stage \notin Declared THEN completed + 1
    ELSE SumFirst(substeps, StageIndex(stage) - 1)

\* _stage_end_boundary
StageEndBoundary(stage) ==
    IF stage \notin Declared THEN completed + 1
    ELSE SumFirst(substeps, StageIndex(stage))

\* _step_bounds
StepBounds ==
    IF current_stage = "None" \/ Total <= 0 THEN <<0, 0>>
    ELSE <<Pct(completed), Pct(StageEndBoundary(current_stage))>>

\* The inputs of update_stream_progress in the model.
StreamChars == {0, 500, 10000}
StreamTotals == {0, 1000}

\* The ratio of update_stream_progress as a fraction <<num, den>>:
\* min(chars/estimated_total, 1.0) when the total is known, otherwise
\* min(log1p(chars/500)/log1p(20), 0.95), which is 0.227670... for 500 chars
\* and 0.95 for 10000 chars.
StreamRatio(chars, est) ==
    IF est > 0 THEN (IF chars < est THEN <<chars, est>> ELSE <<1, 1>>)
    ELSE IF chars = 500 THEN <<227670, 1000000>>
    ELSE <<95, 100>>

\* int(x) of the non-negative quotient num/den
IntQuot(num, den) == num \div den

Min(a, b) == IF a < b THEN a ELSE b
Max(a, b) == IF a > b THEN a ELSE b

\* The percentage update_stream_progress reports.
StreamPercentage(chars, est) ==
    LET start_pct == StepBounds[1]
        end_pct == StepBounds[2]
        span == end_pct - start_pct
        r == StreamRatio(chars, est)
        pct == IF chars > 0
                 THEN IntQuot(start_pct * r[2] + span * r[1], r[2])
                 ELSE start_pct
    IN  Max(start_pct, Min(pct, end_pct))

\* A ProgressUpdate (the fields the model keeps).
Update(stage, status, pct, details) ==
    [stage |-> stage, status |-> status, percentage |-> pct, details |-> details]

\* self.history.append(update); if self.callback: self.callback(update)
Emit(u) ==
    /\ history' = Append(history, u)
    /\ received' = IF has_callback THEN Append(received, u) ELSE received

StageSet == {Stages[i] : i \in 1..Len(Stages)}

\* The stages the model passes to the tracker: the declared ones, and
\* calling_model (undeclared in CUSTOM_SUBSTEPS).
ArgStages == Declared \cup {"calling_model"}

InitTracker ==
    /\ substeps = DEFAULT_SUBSTEPS
    /\ completed = 0
    /\ current_stage = "None"
    /\ history = <<>>
    /\ has_callback = FALSE
    /\ received = <<>>

\* ProgressTracker(substeps, callback)
InitAnyTracker ==
    /\ substeps \in SubstepTables
    /\ completed = 0
    /\ current_stage = "None"
    /\ history = <<>>
    /\ has_callback \in BOOLEAN
    /\ received = <<>>

\* start_stage that counts past the total.
start_stage_NoCap(stage) ==
    /\ stage \in ArgStages
    /\ current_stage' = stage
    /\ completed' = completed + 1
    /\ Emit(Update(stage, "in_progress", BasePercentageOf(completed'), "None"))
    /\ UNCHANGED <<substeps, has_callback>>

start_stage(stage) ==
    /\ stage \in ArgStages
    /\ current_stage' = stage
    /\ completed' = Min(completed + 1, Total)
    /\ Emit(Update(stage, "in_progress", BasePercentageOf(completed'), "None"))
    /\ UNCHANGED <<substeps, has_callback>>

update_stage(stage) ==
    /\ stage \in ArgStages
    /\ completed' = Min(completed + 1, Total)
    /\ Emit(Update(stage, "in_progress", BasePercentageOf(completed'), "None"))
    /\ UNCHANGED <<substeps, current_stage, has_callback>>

\* update_stream_progress that counts a substep like update_stage does.
update_stream_progress_Advances(chars, est) ==
    /\ completed' = Min(completed + 1, Total)
    /\ Emit(Update("calling_model", "in_progress", StreamPercentage(chars, est),
                   "chars_received"))
    /\ UNCHANGED <<substeps, current_stage, has_callback>>

update_stream_progress(chars, est) ==
    /\ Emit(Update("calling_model", "in_progress", StreamPercentage(chars, est),
                   "chars_received"))
    /\ UNCHANGED <<substeps, completed, current_stage, has_callback>>

\* complete_stage without the snap to the stage boundary.
complete_stage_NoSnap(stage) ==
    /\ stage \in ArgStages
    /\ completed' = Min(completed + 1, Total)
    /\ Emit(Update(stage, "completed", BasePercentageOf(completed'), "None"))
    /\ UNCHANGED <<substeps, current_stage, has_callback>>

complete_stage(stage) ==
    /\ stage \in ArgStages
    /\ completed' = Min(Max(completed + 1, StageEndBoundary(stage)), Total)
    /\ Emit(Update(stage, "completed", BasePercentageOf(completed'), "None"))
    /\ UNCHANGED <<substeps, current_stage, has_callback>>

error_stage(stage) ==
    /\ stage \in ArgStages
    /\ completed' = Min(completed + 1, Total)
    /\ Emit(Update(stage, "error", BasePercentageOf(completed'), "None"))
    /\ UNCHANGED <<substeps, current_stage, has_callback>>

\* =============================================================== extractor

\* Chunks one model stream delivers in the model.
MaxChunks == 3

\* argument model: None (prompt only), or a model id
ModelIds == {"None", "gemini"}

\* What the model wrote in one metadata field of its JSON answer: nothing,
\* the placeholder "N/A", or a value of its own.
ModelValues == {"missing", "N/A", "model_value"}

\* parsed["metadata"] as the model wrote it.
ModelMetadata ==
    [repository_owner : ModelValues, repository_name : ModelValues,
     repository_link : ModelValues, readme_raw_link : ModelValues,
     evaluation_date : {"model_value"}, evaluator : {"missing", "model_value"}]

\* A JSON answer that carries no metadata of its own.
PlainMetadata ==
    [repository_owner |-> "missing", repository_name |-> "missing",
     repository_link |-> "missing", readme_raw_link |-> "missing",
     evaluation_date |-> "model_value", evaluator |-> "missing"]

\* current = metadata.get(field, ""); if not current or current == "N/A":
\*     metadata[field] = value       (only under `if <supplied>`)
Filled(current, supplied, value) ==
    IF supplied /\ current \in {"missing", "N/A"} THEN value ELSE current

\* The post-processing of parsed["metadata"] after a successful parse.
PostProcess(md) ==
    [repository_owner |-> Filled(md.repository_owner, owner # "None", owner),
     repository_name  |-> Filled(md.repository_name, repo # "None", repo),
     repository_link  |-> Filled(md.repository_link,
                                 owner # "None" /\ repo # "None", "expected_link"),
     readme_raw_link  |-> Filled(md.readme_raw_link, readme_raw_link # "None",
                                 readme_raw_link),
     evaluation_date  |-> "current_date",
     evaluator        |-> IF model # "None" THEN model ELSE md.evaluator]

\* EvaluationResult(success=True, prompt=prompt, timing=timing); parsed is the
\* empty sequence for None and <<metadata>> for a parsed object.
NewResult ==
    [success |-> TRUE, parsed |-> <<>>, validation_ok |-> "None",
     recovery_suggestions |-> <<>>, progress_history |-> <<>>]

\* The result the top-level handler returns.
FailureResult ==
    [success |-> FALSE, parsed |-> <<>>, validation_ok |-> "None",
     recovery_suggestions |-> <<"unexpected_error">>, progress_history |-> history]

\* result_obj.recovery_suggestions.append(s)
Suggest(res, s) ==
    [res EXCEPT !.recovery_suggestions = Append(res.recovery_suggestions, s)]

\* What an invocation of the progress callback can do: return, and (a
\* callback that can fail) raise.
CallbackOutcomes == IF has_callback /\ cb_faulty THEN {"ok", "raise"} ELSE {"ok"}

\* One call of a tracker method on a stage.
TrackerMethod(method, stage) ==
    IF method = "start" THEN start_stage(stage)
    ELSE IF method = "complete" THEN complete_stage(stage)
    ELSE error_stage(stage)

\* The tracker calls of the branch without a model.
NoModelPath ==
    << <<"start", "calling_model">>, <<"complete", "calling_model">>,
       <<"start", "parsing_json">>, <<"complete", "parsing_json">>,
       <<"start", "validating">>, <<"complete", "validating">> >>

\* The tracker calls of the empty-response branch after its error_stage.
EmptyPath ==
    << <<"start", "parsing_json">>, <<"complete", "parsing_json">>,
       <<"start", "validating">>, <<"complete", "validating">> >>

\* The tracker calls that skip validation when nothing was parsed.
NoParsedPath == << <<"start", "validating">>, <<"complete", "validating">> >>

inputs == <<model, cb_faulty, owner, repo, readme_raw_link>>

\* No extraction is in progress.
NoExtraction ==
    /\ epc = "idle"
    /\ estep = 1
    /\ model = "None"
    /\ cb_faulty = FALSE
    /\ owner = "None"
    /\ repo = "None"
    /\ readme_raw_link = "None"
    /\ schema_obj = FALSE
    /\ chunks = 0
    /\ raw = "None"
    /\ result_obj = NewResult

\* No SSE request is in progress.
NoRelay ==
    /\ rpc = "idle"
    /\ taken = 0
    /\ frames = <<>>

\* extract_json_from_readme(..., model, progress_callback, owner, repo,
\* readme_raw_link) has been called and has built its tracker.
InitExtractor ==
    /\ epc = "start"
    /\ estep = 1
    /\ model \in ModelIds
    /\ cb_faulty \in BOOLEAN
    /\ owner \in {"None", "owner"}
    /\ repo \in {"None", "repo"}
    /\ readme_raw_link \in {"None", "raw_link"}
    /\ schema_obj = FALSE
    /\ chunks = 0
    /\ raw = "None"
    /\ result_obj = NewResult

\* tracker.start_stage(BUILDING_PROMPT)
StartBuildingPrompt(r) ==
    /\ epc = "start"
    /\ r \in CallbackOutcomes
    /\ start_stage("building_prompt")
    /\ epc' = IF r = "raise" THEN "outer_except" ELSE "build"
    /\ UNCHANGED <<inputs, estep, schema_obj, chunks, raw, result_obj>>
    /\ UNCHANGED <<pvars, rvars>>

\* The schema is loaded (o = "raise": load_schema_text or the prompt builder
\* raises; "no_schema": the schema text is empty or not JSON), the prompt is
\* built, BUILDING_PROMPT is completed and result_obj is created.
BuildPrompt(o, r) ==
    /\ epc = "build"
    /\ r \in CallbackOutcomes
    /\ IF o = "raise"
         THEN /\ r = "ok"
              /\ epc' = "outer_except"
              /\ UNCHANGED <<tvars, schema_obj, result_obj>>
         ELSE /\ schema_obj' = (o = "ok")
              /\ complete_stage("building_prompt")
              /\ IF r = "raise"
                   THEN /\ epc' = "outer_except"
                        /\ UNCHANGED result_obj
                   ELSE /\ epc' = IF model # "None" THEN "call_model" ELSE "no_model"
                        /\ result_obj' = NewResult
    /\ UNCHANGED <<inputs, estep, chunks, raw>>
    /\ UNCHANGED <<pvars, rvars>>

\* One tracker call of a branch that only walks through stages; `path` is the
\* branch, `done` what the branch does to result_obj after its last call.
WalkStage(path, done, r) ==
    /\ r \in CallbackOutcomes
    /\ TrackerMethod(path[estep][1], path[estep][2])
    /\ IF r = "raise"
         THEN /\ estep' = 1
              /\ UNCHANGED result_obj
         ELSE IF estep < Len(path)
         THEN /\ estep' = estep + 1
              /\ UNCHANGED result_obj
         ELSE /\ estep' = 1
              /\ result_obj' = done
    /\ UNCHANGED <<inputs, schema_obj, chunks, raw>>
    /\ UNCHANGED <<pvars, rvars>>

\* else: no model provided -- the three remaining stages are started and
\* completed as skipped.
SkipWithoutModel(r) ==
    /\ epc = "no_model"
    /\ WalkStage(NoModelPath, result_obj, r)
    /\ epc' = IF r = "raise" THEN "outer_except"
              ELSE IF estep < Len(NoModelPath) THEN "no_model" ELSE "finish"

\* tracker.start_stage(CALLING_MODEL), before the try of the model call
StartCallingModel(r) ==
    /\ epc = "call_model"
    /\ r \in CallbackOutcomes
    /\ start_stage("calling_model")
    /\ epc' = IF r = "raise" THEN "outer_except" ELSE "stream"
    /\ UNCHANGED <<inputs, estep, schema_obj, chunks, raw, result_obj>>
    /\ UNCHANGED <<pvars, rvars>>

\* for chunk in stream: one chunk arrives and update_stage(CALLING_MODEL)
StreamChunk(r) ==
    /\ epc = "stream"
    /\ chunks < MaxChunks
    /\ r \in CallbackOutcomes
    /\ chunks' = chunks + 1
    /\ update_stage("calling_model")
    /\ epc' = IF r = "raise" THEN "inner_except" ELSE "stream"
    /\ UNCHANGED <<inputs, estep, schema_obj, raw, result_obj>>
    /\ UNCHANGED <<pvars, rvars>>

\* GeminiClient(), generate_stream or the iteration of the stream raises.
StreamRaises ==
    /\ epc = "stream"
    /\ epc' = "inner_except"
    /\ UNCHANGED <<inputs, estep, schema_obj, chunks, raw, result_obj>>
    /\ UNCHANGED <<tvars, pvars, rvars>>

\* EmptyResponse that goes on as if the model had answered.
EmptyResponse_NotDetected(r) ==
    /\ epc = "stream"
    /\ r \in CallbackOutcomes
    /\ raw' = "blank"
    /\ complete_stage("calling_model")
    /\ epc' = IF r = "raise" THEN "inner_except" ELSE "parse_start"
    /\ UNCHANGED <<inputs, estep, schema_obj, chunks, result_obj>>
    /\ UNCHANGED <<pvars, rvars>>

\* The stream ends and the joined response is empty or whitespace:
\* error_stage(CALLING_MODEL).
EmptyResponse(r) ==
    /\ epc = "stream"
    /\ r \in CallbackOutcomes
    /\ raw' = "blank"
    /\ error_stage("calling_model")
    /\ epc' = IF r = "raise" THEN "inner_except" ELSE "empty"
    /\ UNCHANGED <<inputs, estep, schema_obj, chunks, result_obj>>
    /\ UNCHANGED <<pvars, rvars>>

\* After an empty response: PARSING_JSON and VALIDATING are started and
\* completed as skipped, then the recovery suggestion is appended.
SkipAfterEmpty(r) ==
    /\ epc = "empty"
    /\ WalkStage(EmptyPath, Suggest(result_obj, "empty_response"), r)
    /\ epc' = IF r = "raise" THEN "inner_except"
              ELSE IF estep < Len(EmptyPath) THEN "empty" ELSE "finish"

\* The stream ends with text in it (kind: a JSON object, or text that is not
\* JSON): complete_stage(CALLING_MODEL).
ModelResponded(kind, r) ==
    /\ epc = "stream"
    /\ chunks > 0
    /\ kind \in {"invalid", "object"}
    /\ r \in CallbackOutcomes
    /\ raw' = kind
    /\ complete_stage("calling_model")
    /\ epc' = IF r = "raise" THEN "inner_except" ELSE "parse_start"
    /\ UNCHANGED <<inputs, estep, schema_obj, chunks, result_obj>>
    /\ UNCHANGED <<pvars, rvars>>

\* tracker.start_stage(PARSING_JSON)
StartParsingJson(r) ==
    /\ epc = "parse_start"
    /\ r \in CallbackOutcomes
    /\ start_stage("parsing_json")
    /\ epc' = IF r = "raise" THEN "inner_except" ELSE "parse"
    /\ UNCHANGED <<inputs, estep, schema_obj, chunks, raw, result_obj>>
    /\ UNCHANGED <<pvars, rvars>>

\* json.loads of the cleaned response, whose metadata is md.  A JSON object:
\* result_obj.parsed is set, PARSING_JSON completed and the metadata
\* post-processed.  JSONDecodeError: parsed is None, error_stage(PARSING_JSON)
\* and a recovery suggestion.
ParseJson(md, r) ==
    /\ epc = "parse"
    /\ r \in CallbackOutcomes
    /\ IF raw = "object"
         THEN /\ complete_stage("parsing_json")
              /\ result_obj' = [result_obj EXCEPT !.parsed =
                                  IF r = "raise" THEN <<md>> ELSE <<PostProcess(md)>>]
              /\ epc' = IF r = "raise" THEN "inner_except" ELSE "validate_start"
         ELSE /\ md = PlainMetadata
              /\ error_stage("parsing_json")
              /\ result_obj' = IF r = "raise" THEN result_obj
                               ELSE Suggest(result_obj, "invalid_json")
              /\ epc' = IF r = "raise" THEN "inner_except" ELSE "no_parsed"
    /\ UNCHANGED <<inputs, estep, schema_obj, chunks, raw>>
    /\ UNCHANGED <<pvars, rvars>>

\* result_obj.parsed is not None: tracker.start_stage(VALIDATING)
StartValidating(r) ==
    /\ epc = "validate_start"
    /\ r \in CallbackOutcomes
    /\ start_stage("validating")
    /\ epc' = IF r = "raise" THEN "inner_except" ELSE "validate"
    /\ UNCHANGED <<inputs, estep, schema_obj, chunks, raw, result_obj>>
    /\ UNCHANGED <<pvars, rvars>>

\* jsonschema.validate: v = "valid" completes VALIDATING, v = "invalid"
\* (ValidationError) is an error_stage and a recovery suggestion; without a
\* schema object nothing is validated and no update is emitted.
Validate(v, r) ==
    /\ epc = "validate"
    /\ r \in CallbackOutcomes
    /\ IF ~schema_obj
         THEN /\ v = "valid"
              /\ r = "ok"
              /\ epc' = "finish"
              /\ UNCHANGED <<tvars, result_obj>>
         ELSE IF v = "valid"
         THEN /\ complete_stage("validating")
              /\ result_obj' = [result_obj EXCEPT !.validation_ok = "True"]
              /\ epc' = IF r = "raise" THEN "inner_except" ELSE "finish"
         ELSE /\ error_stage("validating")
              /\ result_obj' =
                    IF r = "raise" THEN [result_obj EXCEPT !.validation_ok = "False"]
                    ELSE Suggest([result_obj EXCEPT !.validation_ok = "False"],
                                 "validation_failed")
              /\ epc' = IF r = "raise" THEN "inner_except" ELSE "finish"
    /\ UNCHANGED <<inputs, estep, schema_obj, chunks, raw>>
    /\ UNCHANGED <<pvars, rvars>>

\* result_obj.parsed is None: VALIDATING is started and completed as skipped.
SkipValidating(r) ==
    /\ epc = "no_parsed"
    /\ WalkStage(NoParsedPath, result_obj, r)
    /\ epc' = IF r = "raise" THEN "inner_except"
              ELSE IF estep < Len(NoParsedPath) THEN "no_parsed" ELSE "finish"

\* except Exception around the model call: error_stage(CALLING_MODEL) and a
\* recovery suggestion.
ModelCallFailed(r) ==
    /\ epc = "inner_except"
    /\ r \in CallbackOutcomes
    /\ error_stage("calling_model")
    /\ result_obj' = IF r = "raise" THEN result_obj
                     ELSE Suggest(result_obj, "model_call_failed")
    /\ epc' = IF r = "raise" THEN "outer_except" ELSE "finish"
    /\ UNCHANGED <<inputs, estep, schema_obj, chunks, raw>>
    /\ UNCHANGED <<pvars, rvars>>

\* The tail: result_obj.progress_history = tracker.get_history() (a copy),
\* then tracker.complete_stage(COMPLETED) and return result_obj.
Finish(r) ==
    /\ epc = "finish"
    /\ r \in CallbackOutcomes
    /\ result_obj' = [result_obj EXCEPT !.progress_history = history]
    /\ complete_stage("completed")
    /\ epc' = IF r = "raise" THEN "outer_except" ELSE "returned"
    /\ UNCHANGED <<inputs, estep, schema_obj, chunks, raw>>
    /\ UNCHANGED <<pvars, rvars>>

\* Unexpected that lets the exception leave extract_json_from_readme.
Unexpected_Reraises ==
    /\ epc = "outer_except"
    /\ epc' = "raised"
    /\ UNCHANGED <<inputs, estep, schema_obj, chunks, raw, result_obj>>
    /\ UNCHANGED <<tvars, pvars, rvars>>

\* The top-level except Exception: a failure result with the history so far
\* is returned.
Unexpected ==
    /\ epc = "outer_except"
    /\ result_obj' = FailureResult
    /\ epc' = "returned"
    /\ UNCHANGED <<inputs, estep, schema_obj, chunks, raw>>
    /\ UNCHANGED <<tvars, pvars, rvars>>

\* =============================================================== SSE relay

\* A frame of the event stream; `update` is the payload of a progress frame.
Frame(type, u) == [type |-> type, update |-> u]

\* The payload of the frames that carry no progress update.
NoUpdate == Update("None", "None", 0, "None")

\* progress_queue: the updates on_progress has put and the loop has not taken.
progress_queue == SubSeq(received, taken + 1, Len(received))

\* future.done()
FutureDone == epc \in {"returned", "raised"}

\* progress_generator has submitted extract_json_from_readme, with on_progress
\* as its callback, to the executor and enters its draining loop.
InitRelay ==
    /\ rpc = "poll"
    /\ taken = 0
    /\ frames = <<>>

\* while not future.done():
PollFuture ==
    /\ rpc = "poll"
    /\ rpc' = IF FutureDone THEN "final_drain" ELSE "drain"
    /\ UNCHANGED <<taken, frames>>
    /\ UNCHANGED <<pvars, tvars, evars>>

\* update = progress_queue.get_nowait(); yield a progress frame   (either loop)
Forward ==
    /\ rpc \in {"drain", "final_drain"}
    /\ progress_queue # <<>>
    /\ taken' = taken + 1
    /\ frames' = Append(frames, Frame("progress", Head(progress_queue)))
    /\ UNCHANGED rpc
    /\ UNCHANGED <<pvars, tvars, evars>>

\* The inner loop finds the queue empty: await asyncio.sleep(0.1)
Sleep ==
    /\ rpc = "drain"
    /\ progress_queue = <<>>
    /\ rpc' = "poll"
    /\ UNCHANGED <<taken, frames>>
    /\ UNCHANGED <<pvars, tvars, evars>>

\* AwaitResult that does not drain the queue once the future is done.
AwaitResult_NoFinalDrain ==
    /\ rpc = "final_drain"
    /\ rpc' = "persist"
    /\ UNCHANGED <<taken, frames>>
    /\ UNCHANGED <<pvars, tvars, evars>>

\* The last drain finds the queue empty: result = await future
AwaitResult ==
    /\ rpc = "final_drain"
    /\ progress_queue = <<>>
    /\ rpc' = "persist"
    /\ UNCHANGED <<taken, frames>>
    /\ UNCHANGED <<pvars, tvars, evars>>

\* The frames the generator yields itself after the extraction: the outcome
\* of the save, and for a validated parsed result the rendering progress
\* frame and the rendered report (or its error).
OwnFrames ==
    <<Frame("database", NoUpdate)>> \o
    (IF result_obj.validation_ok = "True" /\ result_obj.parsed # <<>>
       THEN <<Frame("progress", Update("rendering", "in_progress", 90, "None")),
              Frame("rendered", NoUpdate)>>
       ELSE <<>>)

\* Persist, auto-render, and the final frame {'type': 'result', ...}.
SendResult ==
    /\ rpc = "persist"
    /\ frames' = frames \o OwnFrames \o <<Frame("result", NoUpdate)>>
    /\ rpc' = "done"
    /\ UNCHANGED taken
    /\ UNCHANGED <<pvars, tvars, evars>>

\* ========================================================== specifications

Init == InitPipeline /\ InitTracker /\ NoExtraction /\ NoRelay

Next ==
    \/ \E j \in Jobs : new_job(j)
    \/ \E t \in Calls, j \in Jobs, p \in ParamKinds : Invoke(t, j, p)
    \/ \E t \in Calls : DuplicateGuard(t)
    \/ \E t \in Calls : TryAcquire(t)
    \/ \E t \in Calls : BlockingAcquire(t)
    \/ \E t \in Calls : LoadJob(t, "ok")
    \/ \E t \in Calls : StartStep(t)
    \/ \E t \in Calls, o \in {"ok", "fail", "raise"} : StepBody(t, o)
    \/ \E t \in Calls : Succeed(t)
    \/ \E t \in Calls : ReleasePermit(t)
    \/ \E t \in Calls : DiscardActive(t)
    \/ \E t \in Calls : ReleaseFileLock(t)

Spec == Init /\ [][Next]_vars

\* A step of call t inside run().  The position of the call decides which of
\* these steps it can take.
CallStep(t) ==
    \/ DuplicateGuard(t)
    \/ TryAcquire(t)
    \/ BlockingAcquire(t)
    \/ LoadJob(t, "ok")
    \/ StartStep(t)
    \/ \E o \in {"ok", "fail", "raise"} : StepBody(t, o)
    \/ Succeed(t)
    \/ ReleasePermit(t)
    \/ DiscardActive(t)
    \/ ReleaseFileLock(t)

\* Each call runs on a worker thread that the scheduler does not stop for
\* ever while it can take a step.
Fairness == \A t \in Calls : WF_vars(CallStep(t))

\* The runner with fewer permits than calls, after new_job has created every
\* job of the model.
FairInit ==
    /\ MAX_CONCURRENT_PIPELINES \in Capacities
    /\ MAX_CONCURRENT_PIPELINES < NumCalls
    /\ sem = MAX_CONCURRENT_PIPELINES
    /\ active = {}
    /\ file_locks = {}
    /\ file = [j \in Jobs |-> IF j = UnknownJob THEN AbsentFile
                                ELSE [state |-> "ok", doc |-> QueuedJob]]
    /\ pc = [t \in Calls |-> "idle"]
    /\ job_id = [t \in Calls |-> UnknownJob]
    /\ params = [t \in Calls |-> "none"]
    /\ job = [t \in Calls |-> QueuedJob]
    /\ kstep = [t \in Calls |-> 1]
    /\ exc = [t \in Calls |-> FALSE]
    /\ polled = "none"
    /\ held = [t \in Calls |-> "none"]
    /\ InitTracker
    /\ NoExtraction
    /\ NoRelay

\* The run() calls on the jobs created, each with a source in its params.
FairNext ==
    \/ \E t \in Calls, j \in Jobs : Invoke(t, j, "repo_url")
    \/ \E t \in Calls : DuplicateGuard(t)
    \/ \E t \in Calls : TryAcquire(t)
    \/ \E t \in Calls : BlockingAcquire(t)
    \/ \E t \in Calls : LoadJob(t, "ok")
    \/ \E t \in Calls : StartStep(t)
    \/ \E t \in Calls, o \in {"ok", "fail", "raise"} : StepBody(t, o)
    \/ \E t \in Calls : Succeed(t)
    \/ \E t \in Calls : ReleasePermit(t)
    \/ \E t \in Calls : DiscardActive(t)
    \/ \E t \in Calls : ReleaseFileLock(t)

\* These calls under a fair scheduler, with every pipeline body terminating.
FairSpec == FairInit /\ [][FairNext]_vars /\ Fairness

\* The runner after new_job has created every job of the model in this
\* process: each id has its snapshot and the lock entry that _write made.
LockInit ==
    /\ MAX_CONCURRENT_PIPELINES \in Capacities
    /\ sem = MAX_CONCURRENT_PIPELINES
    /\ active = {}
    /\ file_locks = Jobs \ {UnknownJob}
    /\ file = [j \in Jobs |-> IF j = UnknownJob THEN AbsentFile
                                ELSE [state |-> "ok", doc |-> QueuedJob]]
    /\ pc = [t \in Calls |-> "idle"]
    /\ job_id = [t \in Calls |-> UnknownJob]
    /\ params = [t \in Calls |-> "none"]
    /\ job = [t \in Calls |-> QueuedJob]
    /\ kstep = [t \in Calls |-> 1]
    /\ exc = [t \in Calls |-> FALSE]
    /\ polled = "none"
    /\ held = [t \in Calls |-> "none"]
    /\ InitTracker
    /\ NoExtraction
    /\ NoRelay

\* LockNext in which neither the active set nor the file lock keeps a
\* second writer out.
LockNext_Unprotected ==
    \/ \E t \in Calls, j \in Jobs : Invoke(t, j, "repo_url")
    \/ \E t \in Calls : DuplicateGuard_NoCheck(t)
    \/ \E t \in Calls : TryAcquire(t)
    \/ \E t \in Calls : BlockingAcquire(t)
    \/ \E t \in Calls : LoadJob(t, "ok")
    \/ \E t \in Calls : BeginWrite_NoLock(t)
    \/ \E t \in Calls : StartStep(t)
    \/ \E t \in Calls, o \in {"ok", "fail", "raise"} : StepBody(t, o)
    \/ \E t \in Calls : Succeed(t)
    \/ \E t \in Calls : ReleasePermit(t)
    \/ \E t \in Calls : DiscardActive(t)
    \/ \E t \in Calls : ReleaseFileLock(t)

\* The run() calls on the jobs created, with every write of a snapshot in
\* its two halves: the lock taken and the file opened, then the dump.
LockNext ==
    \/ \E t \in Calls, j \in Jobs : Invoke(t, j, "repo_url")
    \/ \E t \in Calls : DuplicateGuard(t)
    \/ \E t \in Calls : TryAcquire(t)
    \/ \E t \in Calls : BlockingAcquire(t)
    \/ \E t \in Calls : LoadJob(t, "ok")
    \/ \E t \in Calls : BeginWrite(t)
    \/ \E t \in Calls : StartStep(t)
    \/ \E t \in Calls, o \in {"ok", "fail", "raise"} : StepBody(t, o)
    \/ \E t \in Calls : Succeed(t)
    \/ \E t \in Calls : ReleasePermit(t)
    \/ \E t \in Calls : DiscardActive(t)
    \/ \E t \in Calls : ReleaseFileLock(t)

LockSpec == LockInit /\ [][LockNext]_vars

\* One run() call, with every failure the model injects, the snapshot write
\* in two halves, and a client polling the job.
SoloCalls == {t \in Calls : \A u \in Calls : t <= u}

SoloNext ==
    \/ \E j \in Jobs : new_job(j)
    \/ \E t \in SoloCalls, j \in Jobs, p \in ParamKinds : Invoke(t, j, p)
    \/ \E t \in SoloCalls : DuplicateGuard(t)
    \/ \E t \in SoloCalls : TryAcquire(t)
    \/ \E t \in SoloCalls, o \in LoadOutcomes : LoadJob(t, o)
    \/ \E t \in SoloCalls : BeginWrite(t)
    \/ \E t \in SoloCalls : StartStep(t)
    \/ \E t \in SoloCalls, o \in Outcomes : StepBody(t, o)
    \/ \E t \in SoloCalls : Succeed(t)
    \/ \E t \in SoloCalls : ReleasePermit(t)
    \/ \E t \in SoloCalls : DiscardActive(t)
    \/ \E t \in SoloCalls : ReleaseFileLock(t)
    \/ \E j \in Jobs : get_job_status(j)

SoloSpec == Init /\ [][SoloNext]_vars

TrackerInit ==
    /\ InitPipeline
    /\ MAX_CONCURRENT_PIPELINES = DefaultCapacity
    /\ InitAnyTracker
    /\ NoExtraction
    /\ NoRelay

\* One call of a tracker method by a caller that makes at most MaxCalls calls.
TrackerCall(method) ==
    /\ Len(history) < MaxCalls
    /\ method
    /\ UNCHANGED <<pvars, evars, rvars>>

TrackerNext ==
    \/ \E s \in StageSet : TrackerCall(start_stage(s))
    \/ \E s \in StageSet : TrackerCall(update_stage(s))
    \/ \E c \in StreamChars, e \in StreamTotals : TrackerCall(update_stream_progress(c, e))
    \/ \E s \in StageSet : TrackerCall(complete_stage(s))
    \/ \E s \in StageSet : TrackerCall(error_stage(s))

TrackerSpec == TrackerInit /\ [][TrackerNext]_vars

\* One call of extract_json_from_readme on a tracker with the default table.
ExtractInit ==
    /\ InitPipeline
    /\ MAX_CONCURRENT_PIPELINES = DefaultCapacity
    /\ substeps = DEFAULT_SUBSTEPS
    /\ completed = 0
    /\ current_stage = "None"
    /\ history = <<>>
    /\ has_callback \in BOOLEAN
    /\ received = <<>>
    /\ InitExtractor
    /\ cb_faulty => has_callback
    /\ NoRelay

CallbackResults == {"ok", "raise"}

ExtractNext ==
    \/ \E r \in CallbackResults : StartBuildingPrompt(r)
    \/ \E o \in {"ok", "no_schema", "raise"}, r \in CallbackResults : BuildPrompt(o, r)
    \/ \E r \in CallbackResults : SkipWithoutModel(r)
    \/ \E r \in CallbackResults : StartCallingModel(r)
    \/ \E r \in CallbackResults : StreamChunk(r)
    \/ StreamRaises
    \/ \E r \in CallbackResults : EmptyResponse(r)
    \/ \E r \in CallbackResults : SkipAfterEmpty(r)
    \/ \E k \in {"invalid", "object"}, r \in CallbackResults : ModelResponded(k, r)
    \/ \E r \in CallbackResults : StartParsingJson(r)
    \/ \E md \in ModelMetadata, r \in CallbackResults : ParseJson(md, r)
    \/ \E r \in CallbackResults : StartValidating(r)
    \/ \E v \in {"valid", "invalid"}, r \in CallbackResults : Validate(v, r)
    \/ \E r \in CallbackResults : SkipValidating(r)
    \/ \E r \in CallbackResults : ModelCallFailed(r)
    \/ \E r \in CallbackResults : Finish(r)
    \/ Unexpected

ExtractSpec == ExtractInit /\ [][ExtractNext]_vars

\* POST /extract-json-stream on a readme_text: the extraction runs on an
\* executor thread with on_progress (progress_queue.put, which does not
\* raise) as its callback, and the generator drains the queue.
RelayInit ==
    /\ InitPipeline
    /\ MAX_CONCURRENT_PIPELINES = DefaultCapacity
    /\ substeps = DEFAULT_SUBSTEPS
    /\ completed = 0
    /\ current_stage = "None"
    /\ history = <<>>
    /\ has_callback = TRUE
    /\ received = <<>>
    /\ InitExtractor
    /\ cb_faulty = FALSE
    /\ owner = "None"
    /\ repo = "None"
    /\ readme_raw_link = "None"
    /\ InitRelay

RelayNext ==
    \/ StartBuildingPrompt("ok")
    \/ \E o \in {"ok", "no_schema", "raise"} : BuildPrompt(o, "ok")
    \/ SkipWithoutModel("ok")
    \/ StartCallingModel("ok")
    \/ StreamChunk("ok")
    \/ StreamRaises
    \/ EmptyResponse("ok")
    \/ SkipAfterEmpty("ok")
    \/ \E k \in {"invalid", "object"} : ModelResponded(k, "ok")
    \/ StartParsingJson("ok")
    \/ ParseJson(PlainMetadata, "ok")
    \/ StartValidating("ok")
    \/ \E v \in {"valid", "invalid"} : Validate(v, "ok")
    \/ SkipValidating("ok")
    \/ ModelCallFailed("ok")
    \/ Finish("ok")
    \/ Unexpected
    \/ PollFuture
    \/ Forward
    \/ Sleep
    \/ AwaitResult
    \/ SendResult

RelaySpec == RelayInit /\ [][RelayNext]_vars

\* ================================================================== claims

\* The calls that are executing the pipeline body _run_inner.
Running == {t \in Calls : pc[t] \in InnerPcs}

\* The calls that have been invoked and have not returned.
InFlight == {t \in Calls : pc[t] \notin ({"idle"} \cup ReturnedPcs)}

\* C1: at most MAX_CONCURRENT_PIPELINES run() calls are executing the
\* pipeline body _run_inner at the same time, whatever the interleaving.
C1_BoundedConcurrency == Cardinality(Running) <= MAX_CONCURRENT_PIPELINES

\* C1 witness: the permits are all taken by running calls and a call with
\* another job id waits in the blocking acquire.
C1_Witness ==
    /\ Cardinality(Running) = MAX_CONCURRENT_PIPELINES
    /\ \E t \in Calls, u \in Running : pc[t] = "wait" /\ job_id[t] # job_id[u]

\* C2: two run() calls with the same job id are never both executing the
\* pipeline body _run_inner at the same time.
C2_OneRunPerJob ==
    \A t \in Running, u \in Running : t # u => job_id[t] # job_id[u]

\* C2 witness: a call returned as a duplicate while the call that owns the
\* same id is executing the pipeline body, with a free permit left.
C2_Witness ==
    \E t \in Running, u \in Calls :
        /\ pc[u] = "ignored"
        /\ job_id[u] = job_id[t]
        /\ pc[t] = "body"
        /\ sem > 0

\* How often a step named n occurs in the step list st.
RECURSIVE CountSteps(_, _)
CountSteps(st, n) ==
    IF st = <<>> THEN 0
    ELSE (IF Head(st).name = n THEN 1 ELSE 0) + CountSteps(Tail(st), n)

\* C3: while two run() calls with the same job id are both in flight, the
\* snapshot holds one set of step records at most: the second call appends
\* no step (no step name occurs twice in the snapshot).
C3_OneStepSetPerJob ==
    \A t \in InFlight, u \in InFlight :
        (t # u /\ job_id[t] = job_id[u] /\ file[job_id[t]].state = "ok")
            => \A k \in 1..NumSteps :
                   CountSteps(file[job_id[t]].doc.steps, StepNames[k]) <= 1

\* C4: after run(job_id) has returned, job_id is not in get_active_jobs()
\* unless another run of that id is in progress.
C4_ReturnedNotActive ==
    \A t \in Calls :
        (pc[t] \in ReturnedPcs /\ job_id[t] \in get_active_jobs)
            => \E u \in Calls \ {t} : job_id[u] = job_id[t] /\ pc[u] \in ActivePcs

\* C4 witness: a run returned after a collaborator raised in the middle of
\* the pipeline, and its id is gone from the active set.
C4_Witness ==
    \E t \in Calls :
        /\ pc[t] = "done"
        /\ file[job_id[t]].state = "ok"
        /\ file[job_id[t]].doc.status = "failed"
        /\ file[job_id[t]].doc.current_step = "call_model"
        /\ job_id[t] \notin get_active_jobs

\* The moves of the persisted status that the data model allows.
StatusMoves ==
    {<<"queued", "running">>, <<"running", "succeeded">>, <<"running", "failed">>}

\* C5: the persisted status of a job only moves queued -> running ->
\* succeeded or failed: every write leaves it as it was or makes one of these
\* moves, also when run is called again after an earlier run finished.
C5_StatusForwardOnly ==
    [][\A j \in Jobs :
          (file[j].state = "ok" /\ file'[j].doc.status # file[j].doc.status)
              => <<file[j].doc.status, file'[j].doc.status>> \in StatusMoves]_vars

\* The last update of the history.
LastUpdate == history[Len(history)]

\* The cumulative boundary of a declared stage: the declared substeps of all
\* stages up to and including it.
CumulativeBoundary(stage) == SumFirst(substeps, StageIndex(stage))

\* floor(100 * boundary(stage) / total), the designed upper bound of a stage.
DesignedBound(stage) == (100 * CumulativeBoundary(stage)) \div Total

\* C6: the percentages of the emitted updates, in emission order, never
\* decrease, for any sequence of tracker calls.
C6_PercentageNonDecreasing ==
    \A i \in 1..(Len(history) - 1) :
        history[i].percentage <= history[i + 1].percentage

\* complete_stage has been called for every declared stage.
AllStagesCompleted ==
    \A s \in Declared :
        \E i \in 1..Len(history) :
            history[i].stage = s /\ history[i].status = "completed"

\* C7: once complete_stage has been called for every declared stage the
\* tracker percentage is exactly 100, and it is 100 after any further call.
C7_AllCompletedIs100 == AllStagesCompleted => BasePercentage = 100

\* C7 witness: every declared stage was completed without any start or
\* update event, and a further call was made afterwards.
C7_Witness ==
    /\ AllStagesCompleted
    /\ Len(history) > Len(substeps)
    /\ \A i \in 1..Len(substeps) : history[i].status = "completed"
    /\ LastUpdate.status # "completed"

\* C8: immediately after complete_stage(S) for a declared stage S the
\* substep counter is at least the cumulative boundary of S.
C8_CompleteReachesBoundary ==
    (/\ Len(history) > 0
     /\ LastUpdate.status = "completed"
     /\ LastUpdate.stage \in Declared)
        => completed >= CumulativeBoundary(LastUpdate.stage)

\* C8 witness: downloading was started and completed without its update
\* event, and the counter stands at the boundary 3 after two events.
C8_Witness ==
    /\ Len(history) = 2
    /\ history[1].status = "in_progress"
    /\ LastUpdate.status = "completed"
    /\ LastUpdate.stage = "downloading"
    /\ completed = 3

\* C9 as claimed: the percentage emitted by complete_stage(S) always equals
\* the designed upper bound of S, floor(100 * boundary(S) / total).
C9_CompleteEqualsDesignedBound ==
    (/\ Len(history) > 0
     /\ LastUpdate.status = "completed"
     /\ LastUpdate.stage \in Declared)
        => LastUpdate.percentage = DesignedBound(LastUpdate.stage)

\* C9 amended: the percentage emitted by complete_stage(S) is never below the
\* designed upper bound of S, and equals it whenever the counter was below
\* the boundary of S before the call. (The steps of complete_stage are the
\* steps that add an update of status completed.)
C9_CompleteAtLeastDesignedBound ==
    [][(/\ Len(history') = Len(history) + 1
        /\ history'[Len(history')].status = "completed"
        /\ history'[Len(history')].stage \in Declared)
          => LET u == history'[Len(history')]
             IN  /\ u.percentage >= DesignedBound(u.stage)
                 /\ completed < CumulativeBoundary(u.stage)
                        => u.percentage = DesignedBound(u.stage)]_vars

\* C9 witness: a stage was completed after fewer events than declared and
\* the emitted percentage is its designed bound.
C9_Witness ==
    /\ Len(history) = 3
    /\ history[1].status = "in_progress"
    /\ history[2].status = "error"
    /\ LastUpdate.status = "completed"
    /\ LastUpdate.stage = "building_prompt"
    /\ substeps = DEFAULT_SUBSTEPS
    /\ LastUpdate.percentage = DesignedBound("building_prompt")

\* C10: update_stream_progress leaves the substep counter unchanged; it
\* appends one update to the history and invokes the callback once with it.
\* (The steps of update_stream_progress are the steps that add an update
\* whose details are chars_received.)
C10_StreamKeepsCounter ==
    [][(/\ history' # history
        /\ Len(history') > 0
        /\ history'[Len(history')].details = "chars_received")
          => LET u == history'[Len(history')]
             IN  /\ completed' = completed
                 /\ history' = Append(history, u)
                 /\ has_callback => received' = Append(received, u)]_vars

\* C10 witness: a streaming update was emitted and delivered to the callback
\* after the counter had advanced, and the counter is where it was.
C10_Witness ==
    /\ Len(history) = 2
    /\ history[1].status = "in_progress"
    /\ LastUpdate.details = "chars_received"
    /\ LastUpdate.percentage > history[1].percentage
    /\ completed = 1
    /\ has_callback
    /\ received = history

\* C11: every percentage update_stream_progress reports lies within
\* [start_pct, end_pct] of the current stage, after any call sequence.  (The
\* call changes neither the counter nor the current stage, so the window it
\* computed is the window of the state it leaves.)
C11_StreamWithinStageWindow ==
    (Len(history) > 0 /\ LastUpdate.details = "chars_received")
        => /\ StepBounds[1] <= LastUpdate.percentage
           /\ LastUpdate.percentage <= StepBounds[2]

\* C12: a client polling a job while run() rewrites its snapshot always
\* obtains a well-formed document, never a failure to parse it.
C12_PollWellFormed == polled # "500"

\* C13: when an admitted run() on an existing job returns, the persisted
\* status is succeeded or failed, and a failed job has its error set.
C13_ReturnedIsTerminal ==
    [][\A t \in Calls :
          (pc[t] = "unlock" /\ pc'[t] = "done" /\ file[job_id[t]].state = "ok")
              => LET d == file'[job_id[t]].doc
                 IN  /\ d.status \in {"succeeded", "failed"}
                     /\ d.status = "failed" => d.error # "None"]_vars

\* C14: no exception escapes run().
C14_NoExceptionEscapes == \A t \in Calls : pc[t] # "raised"

\* The number of steps the run of call t has appended to its dict.
Appended(t) == IF pc[t] = "start" THEN kstep[t] - 1 ELSE kstep[t]

\* C15: once a step of a run fails (its body raises or it is finished with
\* ok=False) no step is appended after it in that run: every step of the run
\* but its last is done; and when the run ends with its last step not done
\* the job is failed, persisted, with the failure message as its error.
C15_FailureStopsRun ==
    \A t \in Calls :
        (pc[t] \in {"start", "body", "success", "release", "discard"}
         /\ job[t].steps # <<>>)
            => LET st == job[t].steps
                   n == Len(st)
               IN  /\ \A i \in (n - Appended(t) + 1)..(n - 1) : st[i].status = "done"
                   /\ (pc[t] \in {"release", "discard"} /\ st[n].status # "done")
                          => /\ job[t].status = "failed"
                             /\ job[t].error = FailureMessage(kstep[t], params[t])
                             /\ file[job_id[t]] = [state |-> "ok", doc |-> job[t]]

\* C15 witness: save_results was finished with ok=False after four done
\* steps and the run is leaving.
C15_Witness ==
    \E t \in Calls :
        /\ pc[t] = "release"
        /\ Len(job[t].steps) = 5
        /\ job[t].steps[5].status = "failed"
        /\ job[t].steps[4].status = "done"
        /\ job[t].status = "failed"

\* The calls that were handed job id j.
CallsOn(j) == {t \in Calls : pc[t] # "idle" /\ job_id[t] = j}

\* The seven step records of a run in which every step was done.
AllStepsDone == [k \in 1..NumSteps |-> [name |-> StepNames[k], status |-> "done"]]

\* C16: the snapshot of a job that was run once has status succeeded only if
\* its steps are exactly the seven steps, in order, each done, and
\* finished_at is set.
C16_SucceededMeansAllStepsDone ==
    \A j \in Jobs :
        (/\ file[j].state = "ok"
         /\ file[j].doc.status = "succeeded"
         /\ Cardinality(CallsOn(j)) = 1)
            => /\ file[j].doc.steps = AllStepsDone
               /\ file[j].doc.finished_at

\* C16 witness: the only run of a job has returned and the job is succeeded.
C16_Witness ==
    \E t \in Calls :
        /\ pc[t] = "done"
        /\ CallsOn(job_id[t]) = {t}
        /\ file[job_id[t]].state = "ok"
        /\ file[job_id[t]].doc.status = "succeeded"

\* C17: when the only run of a job is called with neither repo_url nor
\* readme_text, the job is failed with the error message and its steps list
\* is still empty.
C17_InputErrorBeforeAnyStep ==
    \A t \in Calls :
        (/\ pc[t] \in {"release", "discard"}
         /\ params[t] = "none"
         /\ ~exc[t]
         /\ file[job_id[t]].state = "ok"
         /\ CallsOn(job_id[t]) = {t})
            => /\ file[job_id[t]].doc.status = "failed"
               /\ file[job_id[t]].doc.error = FailureMessage(1, "none")
               /\ file[job_id[t]].doc.steps = <<>>

\* C18: under fair scheduling every admitted run() call, also one that finds
\* all permits taken, eventually gets a permit, runs the pipeline and returns.
C18_AdmittedCallsReturn ==
    \A t \in Calls : (pc[t] = "try_acquire") ~> (pc[t] = "done")

\* C18 witness: a call waits in the blocking acquire and the run that held
\* the permit has given it back.
C18_Witness ==
    \E t \in Calls, u \in Calls :
        /\ pc[t] = "wait"
        /\ pc[u] \in {"discard", "unlock", "done"}
        /\ sem > 0

\* C19: a run() call that finds its id in the active set returns at once and
\* changes nothing: the snapshots, the permit count and the active set are
\* as they were and the id stays in the active set.
C19_DuplicateChangesNothing ==
    [][\A t \in Calls :
          (pc[t] = "guard" /\ job_id[t] \in active)
              => (pc'[t] # pc[t]
                    => /\ pc'[t] = "ignored"
                       /\ file' = file
                       /\ sem' = sem
                       /\ active' = active
                       /\ file_locks' = file_locks)]_vars

\* C19 witness: a duplicate call has returned while the run that owns the id
\* is in a step body and no permit is free.
C19_Witness ==
    \E t \in Calls, u \in Calls :
        /\ pc[u] = "ignored"
        /\ job_id[u] = job_id[t]
        /\ pc[t] = "body"
        /\ job_id[t] \in active
        /\ sem = 0

\* C20: when the insert of save_to_database fails (it raises or returns
\* None) the backup file is still written, the step is done, and the run
\* goes on to cleanup_cache and ends succeeded.
C20_DbFailureNotFatal ==
    \A t \in Calls :
        LET d == file[job_id[t]].doc
        IN  (/\ pc[t] = "done"
             /\ file[job_id[t]].state = "ok"
             /\ Len(d.steps) >= 6
             /\ d.mongo_id # "id")
                => /\ d.backup_file
                   /\ d.steps = AllStepsDone
                   /\ d.status = "succeeded"

\* C20 witness: the insert raised, and the run has returned with the job
\* succeeded and the backup file recorded.
C20_Witness ==
    \E t \in Calls :
        /\ pc[t] = "done"
        /\ file[job_id[t]].doc.status = "succeeded"
        /\ file[job_id[t]].doc.mongo_id = "unset"
        /\ file[job_id[t]].doc.backup_file

\* The metadata of the parsed result.
ParsedMetadata == result_obj.parsed[1]

\* C21: after a successful parse the provenance fields of parsed.metadata
\* (repository owner, name and link, README raw link, evaluator, evaluation
\* date) hold the values of the caller's context, whenever the caller
\* supplied them and whatever the model wrote.  (Runs with a callback that
\* does not raise.)
C21_ProvenanceFromCaller ==
    (/\ epc = "returned"
     /\ ~cb_faulty
     /\ result_obj.parsed # <<>>)
        => /\ owner # "None" => ParsedMetadata.repository_owner = owner
           /\ repo # "None" => ParsedMetadata.repository_name = repo
           /\ (owner # "None" /\ repo # "None")
                 => ParsedMetadata.repository_link = "expected_link"
           /\ readme_raw_link # "None"
                 => ParsedMetadata.readme_raw_link = readme_raw_link
           /\ ParsedMetadata.evaluator = model
           /\ ParsedMetadata.evaluation_date = "current_date"

\* The history holds an update with status error.
HasErrorUpdate == \E i \in 1..Len(history) : history[i].status = "error"

\* C22: extract_json_from_readme never raises.  A failure of the model call,
\* of the parse or of the validation is recorded as an error status of a
\* stage together with a recovery suggestion; any other exception, one raised
\* by the progress callback included, ends in a result with success=False
\* that carries the progress history emitted so far.
C22_NeverRaises ==
    /\ epc # "raised"
    /\ (epc = "returned" /\ ~result_obj.success)
          => /\ result_obj.progress_history = history
             /\ result_obj.recovery_suggestions = <<"unexpected_error">>
    /\ (epc = "returned" /\ result_obj.success)
          => (HasErrorUpdate <=> result_obj.recovery_suggestions # <<>>)

\* C22 witness: the callback raised after at least three updates, and the
\* call has returned the failure result with those updates.
C22_Witness ==
    /\ epc = "returned"
    /\ cb_faulty
    /\ ~result_obj.success
    /\ Len(result_obj.progress_history) >= 3

\* The stage and status of the update n places before the last one.
FromEnd(n) ==
    <<history[Len(history) - n].stage, history[Len(history) - n].status>>

\* C23: when a model id is supplied and the streamed response is empty or
\* whitespace, calling_model gets an error update, parsing_json and
\* validating never get an error update, parsed stays None and neither the
\* parse nor the validation is attempted; with a callback that does not raise
\* the call returns with the recovery suggestion and with parsing_json and
\* validating each started and then completed.
C23_EmptyResponseSkips ==
    raw = "blank"
        => /\ model # "None"
           /\ result_obj.parsed = <<>>
           /\ result_obj.validation_ok = "None"
           /\ \A i \in 1..Len(result_obj.recovery_suggestions) :
                  result_obj.recovery_suggestions[i]
                      \notin {"invalid_json", "validation_failed"}
           /\ \E i \in 1..Len(history) :
                  history[i].stage = "calling_model" /\ history[i].status = "error"
           /\ \A i \in 1..Len(history) :
                  history[i].stage \in {"parsing_json", "validating"}
                      => history[i].status \in {"in_progress", "completed"}
           /\ (epc = "returned" /\ ~cb_faulty)
                 => /\ result_obj.recovery_suggestions = <<"empty_response">>
                    /\ Len(history) >= 6
                    /\ FromEnd(5) = <<"calling_model", "error">>
                    /\ FromEnd(4) = <<"parsing_json", "in_progress">>
                    /\ FromEnd(3) = <<"parsing_json", "completed">>
                    /\ FromEnd(2) = <<"validating", "in_progress">>
                    /\ FromEnd(1) = <<"validating", "completed">>
                    /\ FromEnd(0) = <<"completed", "completed">>

\* C23 witness: a stream of whitespace chunks ended, and the call has
\* returned.
C23_Witness ==
    /\ epc = "returned"
    /\ raw = "blank"
    /\ chunks > 0
    /\ has_callback
    /\ ~cb_faulty
    /\ result_obj.success

\* C24: the progress_history of the returned result holds every update
\* emitted during the attempt, in order, the final COMPLETED update included.
C24_HistoryComplete ==
    (epc = "returned" /\ result_obj.success)
        => result_obj.progress_history = history

\* The step is a call of start_stage, update_stage or error_stage: it adds an
\* update that is an error, or is in progress and not a streaming update.
CountingStep ==
    /\ Len(history') = Len(history) + 1
    /\ LET u == history'[Len(history')]
       IN  \/ u.status = "error"
           \/ u.status = "in_progress" /\ u.details # "chars_received"

\* C25: start_stage, update_stage and error_stage each raise the completed
\* counter by exactly 1, except that a counter equal to the total stays; and
\* in every reachable state 0 <= completed <= total and the percentage is
\* between 0 and 100.
C25_CounterSaturates ==
    [][/\ CountingStep
          => completed' = IF completed = Total THEN Total ELSE completed + 1
       /\ 0 <= completed' /\ completed' <= Total
       /\ 0 <= BasePercentage' /\ BasePercentage' <= 100]_vars

\* C25 witness: the counter had reached the total, and a start_stage,
\* update_stage or error_stage after that has left it there.
C25_Witness ==
    /\ Len(history) >= 2
    /\ history[Len(history) - 1].percentage = 100
    /\ LastUpdate.status \in {"in_progress", "error"}
    /\ LastUpdate.details # "chars_received"
    /\ completed = Total
    /\ LastUpdate.percentage = 100

\* C27: whenever a job id is in the active set the run() that added it holds
\* a permit, so get_active_jobs() never has more members than permits exist.
C27_ActiveWithinCapacity ==
    Cardinality(get_active_jobs) <= MAX_CONCURRENT_PIPELINES

\* C28: in every persisted snapshot whose status is succeeded or failed no
\* step has the status running.
C28_TerminalHasNoRunningStep ==
    \A j \in Jobs :
        (/\ file[j].state = "ok"
         /\ file[j].doc.status \in {"succeeded", "failed"})
            => \A i \in 1..Len(file[j].doc.steps) :
                   file[j].doc.steps[i].status # "running"

\* C29: during an extraction with a model no update with percentage 100 is
\* emitted before the COMPLETED stage is completed, however many chunks the
\* stream delivers.
C29_No100BeforeCompleted ==
    model # "None"
        => \A i \in 1..Len(history) :
               history[i].percentage = 100 => history[i].stage = "completed"

\* The progress frames that forward an update of the extraction (the
\* extraction never reports the rendering stage; the generator does).
Forwarded ==
    SelectSeq(frames, LAMBDA f : f.type = "progress" /\ f.update.stage # "rendering")

ForwardedUpdates == [i \in 1..Len(Forwarded) |-> Forwarded[i].update]

\* C30: every update the worker thread passes to the callback is forwarded
\* to the client exactly once, in emission order, before the final result
\* frame, whatever the interleaving of the worker and the draining loop.
C30_RelayForwardsAll ==
    /\ ForwardedUpdates = SubSeq(received, 1, taken)
    /\ \A i \in 1..Len(frames) :
           frames[i].type = "result"
               => /\ i = Len(frames)
                  /\ FutureDone
                  /\ ForwardedUpdates = received
                  /\ received = history

\* C30 witness: the result frame has been sent after the updates of a whole
\* extraction with a model, the last of them taken after the future was done.
C30_Witness ==
    /\ rpc = "done"
    /\ frames[Len(frames)].type = "result"
    /\ Len(received) >= 9
    /\ Len(frames) > Len(received)

\* The calls inside the critical section of _write for job j.
Writers(j) == {t \in Calls : held[t] # "none" /\ job_id[t] = j}

====
